---- MODULE Spec2Model ----
(***************************************************************************)
(* Model of the decision/learning control logic of                         *)
(* bio-dashboard/src/lib/omni-brain/prescription-rl.py:                    *)
(* the replay buffers (ReplayMemory, PrioritizedReplayMemory), the action  *)
(* catalog (PrescriptionAgent.action_boundaries, _idx_to_action,           *)
(* FeedbackDigest._action_to_idx), the entry of                            *)
(* PrescriptionAgent.train_step, its _soft_update and load, the            *)
(* RewardCalculator, the FeedbackDigest and the HypothesisGenerator; and   *)
(* push run statement by statement by two unsynchronised sessions.         *)
(*                                                                         *)
(* Number representation.                                                  *)
(*  - alpha is 0.6 = 3/5.  The raw priorities of the buffer specifications *)
(*    are perfect fifth powers r^5, so that priority ** alpha = r^3 is an  *)
(*    exact integer; elsewhere priority ** alpha is rounded down.          *)
(*  - beta is b/5.  An importance weight w is represented by the rational  *)
(*    w^5 (a pair <<numerator, denominator>>); x |-> x^5 is strictly       *)
(*    increasing on the non-negative reals and commutes with division, so  *)
(*    max, /, the order and "= 1" are the same on w and on w^5.            *)
(*  - epsilon is in thousandths; a network parameter is a scaled integer   *)
(*    on which the soft updates of the specification are exact.            *)
(*  - rewards and the priorities derived from them are in thousandths,     *)
(*    the reward weights and adherence in tenths, tanh and the reward      *)
(*    components in hundredths.                                            *)
(*  - a cosine similarity is the pair of integers (dot, product of the     *)
(*    norms), a Pearson correlation its sign and its square as a rational. *)
(***************************************************************************)
EXTENDS Integers, Sequences, FiniteSets, TLC

\* ---------------------------------------------------------------- bounds
MaxCapacity == 3        \* capacities 0..MaxCapacity
MaxPushes == 5          \* push calls per buffer
MaxBatch == 2           \* batch_size arguments 0..MaxBatch
MaxUpdates == 1         \* (index, priority) pairs per update_priorities
MaxPriorityRoot == 2    \* raw priorities r^5, r in 0..MaxPriorityRoot
MaxCategory == 2        \* category sizes 0..MaxCategory
MaxOutcomes == 2        \* process_outcome calls per digest
MaxTopK == 2            \* top_k arguments 1..MaxTopK
MaxAnalyses == 2        \* analyze_correlations calls per generator
MaxSoftUpdates == 2     \* exact _soft_update calls after a load

\* ------------------------------------------------------ program constants
AlphaNum == 3           \* alpha = 0.6 = AlphaNum / AlphaDen
AlphaDen == 5
EpsilonStart == 1000    \* epsilon_start = 1.0, in thousandths
EpsilonEnd == 10        \* epsilon_end = 0.01
EpsilonDecay == 995     \* epsilon_decay = 0.995
NutrientCatalogSize == 10
ExerciseCatalogSize == 8
TauNum == 1             \* tau = 0.005 = TauNum / TauDen
TauDen == 200

\* beta = b/5: 0 and the default 0.4
BetaFifths == {0, 2}

\* ------------------------------------------------------------- variables
VARIABLES
    variant,        \* the store in use: "prioritized" or "uniform"
    capacity,       \* PrioritizedReplayMemory.capacity / deque maxlen
    memory,         \* PrioritizedReplayMemory.memory   (list of transitions)
    priorities,     \* PrioritizedReplayMemory.priorities (priority ** alpha)
    position,       \* PrioritizedReplayMemory.position (write cursor)
    pushed,         \* number of push calls made on the prioritized buffer
    umemory,        \* ReplayMemory.memory (deque)
    upushed,        \* number of push calls made on the uniform buffer
    config,         \* RLConfig: the four category sizes
    action_boundaries, \* PrescriptionAgent.action_boundaries
    epsilon,        \* PrescriptionAgent.epsilon
    online_param,   \* a parameter of q_network
    target_param,   \* the same parameter of target_network
    idxIn,          \* argument of the last _idx_to_action call
    curAction,      \* Action returned by the last _idx_to_action call
    actIn,          \* argument of the last _action_to_idx call
    idxOut,         \* index returned by the last _action_to_idx call
    reward_weights, \* RLConfig: the three reward weights, in tenths
    global_successes, \* FeedbackDigest.global_successes
    rewardIn,       \* arguments of the last RewardCalculator.compute call
    rewardOut,      \* the dict that call returned
    min_sample_size, \* HypothesisGenerator.min_sample_size
    min_correlation, \* HypothesisGenerator.min_correlation
    hypotheses,     \* HypothesisGenerator.hypotheses (the log)
    analyses,       \* number of analyze_correlations calls made
    lastCall,       \* arguments of the last call on the digest or the generator
    sessions,       \* the callers of push: where each one is in push, its locals
    lastOp,         \* name of the last operation called
    lastArg,        \* its priority or batch_size argument (0 if none)
    ret             \* its outcome: what it returned or raised

vars == <<variant, capacity, memory, priorities, position, pushed, umemory, upushed,
          config, action_boundaries, epsilon, online_param, target_param,
          idxIn, curAction, actIn, idxOut,
          reward_weights, global_successes, rewardIn, rewardOut,
          min_sample_size, min_correlation, hypotheses, analyses, lastCall,
          sessions, lastOp, lastArg, ret>>

bufferVars == <<memory, priorities, position>>
agentVars == <<config, action_boundaries, epsilon, online_param, target_param>>
catalogVars == <<idxIn, curAction, actIn, idxOut>>
digestVars == <<reward_weights, global_successes, rewardIn, rewardOut>>
generatorVars == <<min_sample_size, min_correlation, hypotheses, analyses>>
hypothesisVars == <<generatorVars, lastCall>>

\* --------------------------------------------------------------- helpers
Min(a, b) == IF a < b THEN a ELSE b

RECURSIVE Pow(_, _)
Pow(x, n) == IF n = 0 THEN 1 ELSE x * Pow(x, n - 1)

\* the outcome of a call
NoValue == <<>>
Returned(v) == [kind |-> "return", exc |-> "", val |-> v]
Raised(e) == [kind |-> "raise", exc |-> e, val |-> NoValue]
NotCalled == [kind |-> "none", exc |-> "", val |-> NoValue]
ReturnedNone == Returned([none |-> TRUE])

\* exact rationals <<numerator, denominator>>, denominator > 0
RECURSIVE GCD(_, _)
GCD(a, b) == IF b = 0 THEN a ELSE GCD(b, a % b)
Reduce(q) == LET g == GCD(q[1], q[2]) IN <<q[1] \div g, q[2] \div g>>
RatLess(p, q) == p[1] * q[2] < q[1] * p[2]
RatDiv(p, q) == Reduce(<<p[1] * q[2], p[2] * q[1]>>)
RatOne == <<1, 1>>

RECURSIVE SeqSum(_)
SeqSum(s) == IF s = <<>> THEN 0 ELSE Head(s) + SeqSum(Tail(s))

\* the largest element of a non-empty sequence of rationals (ndarray.max)
RECURSIVE RatMax(_)
RatMax(s) ==
    IF Len(s) = 1 THEN s[1]
    ELSE LET m == RatMax(Tail(s)) IN IF RatLess(s[1], m) THEN m ELSE s[1]

\* ------------------------------------------------------------ the inputs
Capacities == 0..MaxCapacity
BatchSizes == 0..MaxBatch
PriorityValues == {Pow(r, AlphaDen) : r \in 0..MaxPriorityRoot}
Transition(n) == [id |-> n]

\* ------------------------------------------- PrioritizedReplayMemory
\* the largest x in lo..hi with x^5 <= n, by bisection
RECURSIVE FloorRoot(_, _, _)
FloorRoot(n, lo, hi) ==
    IF lo = hi THEN lo
    ELSE LET mid == (lo + hi + 1) \div 2
         IN  IF Pow(mid, AlphaDen) <= n THEN FloorRoot(n, mid, hi)
             ELSE FloorRoot(n, lo, mid - 1)

\* priority ** self.alpha = (priority^3)^(1/5): exact on the perfect fifth
\* powers, rounded down to an integer elsewhere (x^5 stays below 2^31 for
\* x <= 73, which covers every priority up to 1275)
PowAlpha(priority) ==
    FloorRoot(Pow(priority, AlphaNum), 0, Min(priority, 73))

\* a Python list subscript: 0-based, negative indices count from the end;
\* 0 stands for IndexError, otherwise the 1-based place in the sequence
ListIndex(n, idx) ==
    IF 0 <= idx /\ idx < n THEN idx + 1
    ELSE IF idx < 0 /\ -idx <= n THEN n + idx + 1
    ELSE 0

Buffer(m, p, pos) == [memory |-> m, priorities |-> p, position |-> pos]

\* push that appends even when the buffer is full
push_AlwaysAppend(buf, cap, transition, priority) ==
    [buf |-> Buffer(Append(buf.memory, transition),
                    Append(buf.priorities, PowAlpha(priority)),
                    (buf.position + 1) % (cap + 1)),
     exc |-> ""]

\* push that overwrites without advancing the write cursor
push_CursorStuck(buf, cap, transition, priority) ==
    IF Len(buf.memory) < cap
    THEN [buf |-> Buffer(Append(buf.memory, transition),
                         Append(buf.priorities, PowAlpha(priority)),
                         (buf.position + 1) % cap),
          exc |-> ""]
    ELSE IF ListIndex(Len(buf.memory), buf.position) = 0
    THEN [buf |-> buf, exc |-> "IndexError"]
    ELSE [buf |-> Buffer(
                    [buf.memory EXCEPT ![buf.position + 1] = transition],
                    [buf.priorities EXCEPT ![buf.position + 1] = PowAlpha(priority)],
                    buf.position),
          exc |-> ""]

\* push that advances the write cursor without wrapping it
push_NoWrap(buf, cap, transition, priority) ==
    IF Len(buf.memory) < cap
    THEN [buf |-> Buffer(Append(buf.memory, transition),
                         Append(buf.priorities, PowAlpha(priority)),
                         buf.position + 1),
          exc |-> ""]
    ELSE IF ListIndex(Len(buf.memory), buf.position) = 0
    THEN [buf |-> buf, exc |-> "IndexError"]
    ELSE [buf |-> Buffer(
                    [buf.memory EXCEPT ![buf.position + 1] = transition],
                    [buf.priorities EXCEPT ![buf.position + 1] = PowAlpha(priority)],
                    buf.position + 1),
          exc |-> ""]

\* push(transition, priority): the buffer afterwards, and what was raised
PrioritizedReplayMemory_push(buf, cap, transition, priority) ==
    IF Len(buf.memory) < cap
    THEN [buf |-> Buffer(Append(buf.memory, transition),
                         Append(buf.priorities, PowAlpha(priority)),
                         (buf.position + 1) % cap),
          exc |-> ""]
    ELSE IF ListIndex(Len(buf.memory), buf.position) = 0
    THEN [buf |-> buf, exc |-> "IndexError"]
    ELSE [buf |-> Buffer(
                    [buf.memory EXCEPT ![buf.position + 1] = transition],
                    [buf.priorities EXCEPT ![buf.position + 1] = PowAlpha(priority)],
                    (buf.position + 1) % cap),
          exc |-> ""]

\* a refresh that stores the priority as given, not raised to alpha
RECURSIVE update_priorities_NoAlpha(_, _)
update_priorities_NoAlpha(prios, pairs) ==
    IF pairs = <<>> THEN [priorities |-> prios, exc |-> ""]
    ELSE LET at == ListIndex(Len(prios), Head(pairs).idx)
         IN  IF at = 0 THEN [priorities |-> prios, exc |-> "IndexError"]
             ELSE update_priorities_NoAlpha(
                      [prios EXCEPT ![at] = Head(pairs).priority],
                      Tail(pairs))

\* update_priorities(indices, priorities): the pairs of zip(indices,
\* priorities) are written in order; an index outside the list raises
\* IndexError after the earlier pairs were written
RECURSIVE PrioritizedReplayMemory_update_priorities(_, _)
PrioritizedReplayMemory_update_priorities(prios, pairs) ==
    IF pairs = <<>> THEN [priorities |-> prios, exc |-> ""]
    ELSE LET at == ListIndex(Len(prios), Head(pairs).idx)
         IN  IF at = 0 THEN [priorities |-> prios, exc |-> "IndexError"]
             ELSE PrioritizedReplayMemory_update_priorities(
                      [prios EXCEPT ![at] = PowAlpha(Head(pairs).priority)],
                      Tail(pairs))

\* the indices np.random.choice(len(memory), batch_size, p=probabilities)
\* can draw: those of non-zero probability
Drawable(prios) == {i \in 0..(Len(prios) - 1) : prios[i + 1] > 0}

\* weights = (len(memory) * probabilities[indices]) ** (-beta), as fifth
\* powers: (N * p_i / S) ** (-b) = S^b / (N * p_i)^b
RawWeights(prios, indices, b) ==
    [k \in 1..Len(indices) |->
        <<Pow(SeqSum(prios), b), Pow(Len(prios) * prios[indices[k] + 1], b)>>]

\* sample that returns the weights without dividing by their maximum
Normalize_NoDivide(weights) ==
    [k \in 1..Len(weights) |-> Reduce(weights[k])]

\* weights /= weights.max()
Normalize(weights) ==
    LET m == RatMax(weights)
    IN  [k \in 1..Len(weights) |-> RatDiv(weights[k], m)]

\* a sample that returns the first stored transition for every index
sample_FirstStored(buf, indices, b) ==
    [samples |-> [k \in 1..Len(indices) |-> buf.memory[1]],
     indices |-> indices,
     weights |-> Normalize(RawWeights(buf.priorities, indices, b))]

\* sample(batch_size, beta) with the indices the random draw produced
PrioritizedReplayMemory_sample(buf, indices, b) ==
    [samples |-> [k \in 1..Len(indices) |-> buf.memory[indices[k] + 1]],
     indices |-> indices,
     weights |-> Normalize(RawWeights(buf.priorities, indices, b))]

\* sample raises ValueError instead of returning: on a negative batch size,
\* on an empty list or a zero priority sum (probabilities is empty or NaN,
\* refused by np.random.choice), and on batch_size 0 (weights.max() of an
\* empty array)
SampleRaises(buf, batch_size) ==
    \/ batch_size <= 0
    \/ Len(buf.memory) = 0
    \/ SeqSum(buf.priorities) = 0

\* len(buffer): the class defines no __len__
PrioritizedReplayMemory_len(buf) == Raised("TypeError")

\* ------------------------------------------------------- action catalog
\* list(ActionType), in definition order
ActionType == <<"nutrient", "exercise", "sleep", "lifestyle">>

RLConfig(n, e, s, l) ==
    [num_nutrients |-> n, num_exercises |-> e,
     num_sleep_patterns |-> s, num_lifestyle |-> l]

total_actions(cfg) ==
    cfg.num_nutrients + cfg.num_exercises + cfg.num_sleep_patterns
        + cfg.num_lifestyle

\* boundaries whose lifestyle range starts without the sleep patterns
ActionBoundaries_LifestyleStart(cfg) ==
    << <<0, cfg.num_nutrients>>,
       <<cfg.num_nutrients, cfg.num_nutrients + cfg.num_exercises>>,
       <<cfg.num_nutrients + cfg.num_exercises,
         cfg.num_nutrients + cfg.num_exercises + cfg.num_sleep_patterns>>,
       <<cfg.num_nutrients + cfg.num_exercises,
         cfg.num_nutrients + cfg.num_exercises + cfg.num_sleep_patterns
             + cfg.num_lifestyle>> >>

\* self.action_boundaries, built by PrescriptionAgent.__init__
ActionBoundaries(cfg) ==
    << <<0, cfg.num_nutrients>>,
       <<cfg.num_nutrients, cfg.num_nutrients + cfg.num_exercises>>,
       <<cfg.num_nutrients + cfg.num_exercises,
         cfg.num_nutrients + cfg.num_exercises + cfg.num_sleep_patterns>>,
       <<cfg.num_nutrients + cfg.num_exercises + cfg.num_sleep_patterns,
         cfg.num_nutrients + cfg.num_exercises + cfg.num_sleep_patterns
             + cfg.num_lifestyle>> >>

\* float(torch.sigmoid(confidence)) in thousandths, on the Q-values used
Confidences == {0, 1}
Sigmoid(q) == IF q = 0 THEN 500 ELSE 731

Action(type, id, name, dosage, frequency, timing, confidence, reasoning) ==
    [action_type |-> type, action_id |-> id, name |-> name,
     dosage |-> dosage, frequency |-> frequency, timing |-> timing,
     confidence |-> confidence, reasoning |-> reasoning]

NoAction == Action("none", 0, <<"", 0>>, "", "", "", 0, <<"", 0>>)

\* _generate_reasoning: random.choice among the texts of the action type
\* (three for a nutrient or an exercise, one default text otherwise)
ReasoningChoices == 0..2
generate_reasoning(type, choice) ==
    IF type \in {"nutrient", "exercise"} THEN <<type, choice>>
    ELSE <<"default", 0>>

\* a range search whose ranges are closed at their upper end
RECURSIVE FindRange_Closed(_, _, _)
FindRange_Closed(bounds, idx, i) ==
    IF i > Len(bounds) THEN 0
    ELSE IF bounds[i][1] <= idx /\ idx <= bounds[i][2] THEN i
    ELSE FindRange_Closed(bounds, idx, i + 1)

\* the first range of action_boundaries holding idx (0 when none does)
RECURSIVE FindRange(_, _, _)
FindRange(bounds, idx, i) ==
    IF i > Len(bounds) THEN 0
    ELSE IF bounds[i][1] <= idx /\ idx < bounds[i][2] THEN i
    ELSE FindRange(bounds, idx, i + 1)

\* the Action _idx_to_action builds for a category and a local id: the
\* catalog entry when the local id has one, a synthesized name otherwise
CatalogAction(type, local_idx, confidence, choice) ==
    IF type = "nutrient"
    THEN IF local_idx < NutrientCatalogSize
         THEN Action(type, local_idx, <<"NUTRIENT_CATALOG", local_idx>>,
                     "catalog", "catalog", "catalog",
                     Sigmoid(confidence), generate_reasoning(type, choice))
         ELSE Action(type, local_idx, <<"Nutrient_", local_idx>>,
                     "standard", "daily", "any",
                     Sigmoid(confidence), generate_reasoning(type, choice))
    ELSE IF type = "exercise"
    THEN IF local_idx < ExerciseCatalogSize
         THEN Action(type, local_idx, <<"EXERCISE_CATALOG", local_idx>>,
                     "catalog", "catalog", "None",
                     Sigmoid(confidence), generate_reasoning(type, choice))
         ELSE Action(type, local_idx, <<"Exercise_", local_idx>>,
                     "30min", "daily", "None",
                     Sigmoid(confidence), generate_reasoning(type, choice))
    ELSE Action(type, local_idx, <<type, local_idx>>,
                "None", "None", "None",
                Sigmoid(confidence), generate_reasoning(type, choice))

\* _idx_to_action that keeps the global index as the local id
idx_to_action_NoLocal(bounds, idx, confidence, choice) ==
    LET i == FindRange(bounds, idx, 1)
    IN  IF i = 0 THEN Raised("UnboundLocalError")
        ELSE Returned(CatalogAction(ActionType[i], idx, confidence, choice))

\* _idx_to_action(idx, confidence); when no range holds idx the loop leaves
\* action_type unassigned and its first use raises UnboundLocalError
idx_to_action(bounds, idx, confidence, choice) ==
    LET i == FindRange(bounds, idx, 1)
    IN  IF i = 0 THEN Raised("UnboundLocalError")
        ELSE Returned(CatalogAction(ActionType[i], idx - bounds[i][1],
                                    confidence, choice))

CategorySizes(cfg) ==
    <<cfg.num_nutrients, cfg.num_exercises, cfg.num_sleep_patterns,
      cfg.num_lifestyle>>

\* _action_to_idx(action): the loop over ActionType adds up the sizes of the
\* categories before the action's own; an action of no known type gets 0
RECURSIVE ActionToIdxLoop(_, _, _, _)
ActionToIdxLoop(cfg, action, i, offset) ==
    IF i > Len(ActionType) THEN 0
    ELSE IF action.action_type = ActionType[i] THEN offset + action.action_id
    ELSE ActionToIdxLoop(cfg, action, i + 1, offset + CategorySizes(cfg)[i])

\* _action_to_idx that also counts the action's own category in the offset
action_to_idx_OwnCategory(cfg, action) ==
    ActionToIdxLoop(cfg, action, 1, 0)
        + (IF \E i \in 1..Len(ActionType) : action.action_type = ActionType[i]
           THEN CategorySizes(cfg)[CHOOSE i \in 1..Len(ActionType) :
                                      action.action_type = ActionType[i]]
           ELSE 0)

action_to_idx(cfg, action) == ActionToIdxLoop(cfg, action, 1, 0)

\* ------------------------------------------------------- ReplayMemory
\* deque(maxlen=capacity).append: a full deque drops its leftmost element
ReplayMemory_push(mem, cap, transition) ==
    IF cap = 0 THEN mem
    ELSE IF Len(mem) = cap THEN Append(Tail(mem), transition)
    ELSE Append(mem, transition)

\* the results random.sample(memory, batch_size) can return: batch_size
\* elements at pairwise different places, in any order
ReplayMemory_sample(mem, batch_size) ==
    {[k \in 1..batch_size |-> mem[f[k]]] :
        f \in {g \in [1..batch_size -> 1..Len(mem)] :
                 \A i, j \in 1..batch_size : i # j => g[i] # g[j]}}

ReplayMemory_len(mem) == Returned(Len(mem))

\* ------------------------------------------------- PrescriptionAgent
\* max(self.config.epsilon_end, self.epsilon * self.config.epsilon_decay),
\* the last statement of train_step, in thousandths (exact at epsilon_start,
\* rounded down below it)
decayed_epsilon(eps) ==
    IF (eps * EpsilonDecay) \div 1000 < EpsilonEnd THEN EpsilonEnd
    ELSE (eps * EpsilonDecay) \div 1000

\* train_step(batch_size) begins with len(self.memory) < batch_size, and
\* self.memory is the PrioritizedReplayMemory: when len raises, the call ends
\* there, before any statement of the body runs
train_step_entry(buf, batch_size) ==
    LET n == PrioritizedReplayMemory_len(buf)
    IN  IF n.kind = "raise" THEN n
        ELSE IF n.val < batch_size THEN ReturnedNone
        ELSE Returned([trained |-> TRUE])

\* a blend that adds tau * param to the whole of target_param
soft_update_NoDecay(param, target) ==
    (TauNum * param + TauDen * target) \div TauDen

\* _soft_update, for one parameter:
\* tau * param.data + (1 - tau) * target_param.data.  Parameters are scaled
\* integers; the division is exact for the values the specification loads
soft_update(param, target) ==
    (TauNum * param + (TauDen - TauNum) * target) \div TauDen

\* whether that division leaves no remainder
soft_update_exact(param, target) ==
    (TauNum * param + (TauDen - TauNum) * target) % TauDen = 0

\* ------------------------------------------- push, statement by statement
\* Two sessions call push on one buffer with nothing serialising them; a
\* session is a caller's position in push (the statement it runs next) and
\* its locals: the transition it pushes and the cursor it has read
Sessions == {1, 2}
IdleSession ==
    [pc |-> "idle", transition |-> 0, cursor |-> 0, overlapped |-> FALSE]

\* a test that always takes the appending branch
push_branch_Append(mem, cap) == "append_memory"

\* if len(self.memory) < self.capacity: the statement that runs next
push_branch(mem, cap) ==
    IF Len(mem) < cap THEN "append_memory" ELSE "store_memory"

\* the default priority of push, 1.0
DefaultPriority == 1

\* ---------------------------------------------------- RewardCalculator
\* A State: health_score, the subjective_wellbeing entry of biomarkers (a
\* sequence holding the value, empty when the key is absent) and the
\* current_signal vector.
State(health_score, biomarkers, current_signal) ==
    [health_score |-> health_score, biomarkers |-> biomarkers,
     current_signal |-> current_signal]

\* np.tanh in hundredths, of an argument given in tenths
TanhTable ==
    <<10, 20, 29, 38, 46, 54, 60, 66, 72, 76, 80, 83, 86, 89, 91,
      92, 94, 95, 96, 96, 97, 98, 98, 98, 99, 99, 99, 99, 99, 100>>
Tanh(tenths) ==
    IF tenths = 0 THEN 0
    ELSE IF tenths > 0
         THEN (IF tenths > Len(TanhTable) THEN 100 ELSE TanhTable[tenths])
         ELSE -(IF -tenths > Len(TanhTable) THEN 100 ELSE TanhTable[-tenths])

\* np.tanh(health_delta / 10), in hundredths
compute_signal_improvement(prev, curr) ==
    Tanh(curr.health_score - prev.health_score)

\* biomarkers.get("subjective_wellbeing", 50)
DefaultWellbeing == 50
SubjectiveScore(state) ==
    IF state.biomarkers = <<>> THEN DefaultWellbeing ELSE state.biomarkers[1]

\* np.tanh(delta / 20), in hundredths (the scores used are even)
compute_subjective_improvement(prev, curr) ==
    Tanh((SubjectiveScore(curr) - SubjectiveScore(prev)) \div 2)

\* the reward weights of RLConfig, in tenths
RewardWeights(signal, subjective, adherence) ==
    [signal_improvement_weight |-> signal,
     subjective_condition_weight |-> subjective,
     adherence_bonus_weight |-> adherence]

RewardDict(signal_improvement, subjective_improvement, adherence_bonus, total) ==
    [signal_improvement |-> signal_improvement,
     subjective_improvement |-> subjective_improvement,
     adherence_bonus |-> adherence_bonus,
     total |-> total]

\* a reward that also counts the transitions the agent has stored
compute_CountsPushes(weights, prev_state, curr_state, action, adherence) ==
    RewardDict(compute_signal_improvement(prev_state, curr_state),
               compute_subjective_improvement(prev_state, curr_state),
               adherence * 2,
               weights.signal_improvement_weight
                   * compute_signal_improvement(prev_state, curr_state)
               + weights.subjective_condition_weight
                   * compute_subjective_improvement(prev_state, curr_state)
               + weights.adherence_bonus_weight * (adherence * 2)
               + pushed)

\* RewardCalculator.compute(prev_state, curr_state, action, adherence), with
\* adherence in tenths: the components in hundredths (adherence * 0.2 is
\* adherence-in-tenths * 2 hundredths) and the total in thousandths.  No
\* statement of it inspects the range of adherence.
RewardCalculator_compute(weights, prev_state, curr_state, action, adherence) ==
    RewardDict(compute_signal_improvement(prev_state, curr_state),
               compute_subjective_improvement(prev_state, curr_state),
               adherence * 2,
               weights.signal_improvement_weight
                   * compute_signal_improvement(prev_state, curr_state)
               + weights.subjective_condition_weight
                   * compute_subjective_improvement(prev_state, curr_state)
               + weights.adherence_bonus_weight * (adherence * 2))

\* ------------------------------------------------------- FeedbackDigest
Abs(x) == IF x < 0 THEN -x ELSE x

\* the transition process_outcome builds: Transition(state, action_idx,
\* reward, next_state, done=False); n numbers the transitions in the order
\* of their construction and stands for the two State objects, which no
\* modelled operation reads back
OutcomeTransition(n, action_idx, reward) ==
    [id |-> n, action |-> action_idx, reward |-> reward, done |-> FALSE]

\* reward thresholds and offsets of process_outcome, in thousandths
SuccessThreshold == 500     \* reward > 0.5
PriorityOffset == 100       \* priority = abs(reward) + 0.1

\* a success test that also admits the threshold itself
IsSuccess_AtLeast(reward) == reward >= SuccessThreshold

\* if reward > 0.5
IsSuccess(reward) == reward > SuccessThreshold

\* self.global_successes: a dict, kept as the sequence of its items in
\* insertion order, each a key action_idx and its list of (signal, reward)
Success(signal, reward) == [signal |-> signal, reward |-> reward]
HasKey(gs, action_idx) == \E i \in 1..Len(gs) : gs[i].action_idx = action_idx
KeyPlace(gs, action_idx) ==
    CHOOSE i \in 1..Len(gs) : gs[i].action_idx = action_idx

\* an insertion that starts the key's list afresh
add_global_success_Restart(gs, action_idx, signal, reward) ==
    LET g == IF HasKey(gs, action_idx) THEN gs
             ELSE Append(gs, [action_idx |-> action_idx, successes |-> <<>>])
        i == KeyPlace(g, action_idx)
    IN  [g EXCEPT ![i].successes = <<Success(signal, reward)>>]

\* _add_global_success(action_idx, signal, reward)
add_global_success(gs, action_idx, signal, reward) ==
    LET g == IF HasKey(gs, action_idx) THEN gs
             ELSE Append(gs, [action_idx |-> action_idx, successes |-> <<>>])
        i == KeyPlace(g, action_idx)
    IN  [g EXCEPT ![i].successes = Append(@, Success(signal, reward))]

\* a seed priority without the offset
seed_priority_NoOffset(reward) == Abs(reward)

\* priority = abs(reward) + 0.1
seed_priority(reward) == Abs(reward) + PriorityOffset

\* process_outcome(state, action, next_state, adherence): the buffer and
\* the success record afterwards, and what the call returned or raised.
\* An exception of push leaves the method before the success test.
process_outcome(buf, cap, gs, cfg, weights, n, state, action, next_state, adherence) ==
    LET reward_dict == RewardCalculator_compute(weights, state, next_state,
                                                action, adherence)
        reward == reward_dict.total
        action_idx == action_to_idx(cfg, action)
        transition == OutcomeTransition(n, action_idx, reward)
        priority == seed_priority(reward)
        r == PrioritizedReplayMemory_push(buf, cap, transition, priority)
    IN  IF r.exc # ""
        THEN [buf |-> r.buf, gs |-> gs, ret |-> Raised(r.exc)]
        ELSE [buf |-> r.buf,
              gs |-> IF IsSuccess(reward)
                     THEN add_global_success(gs, action_idx,
                                             state.current_signal, reward)
                     ELSE gs,
              ret |-> Returned(reward)]

\* np.dot and np.linalg.norm on integer vectors whose norms are integers
RECURSIVE Dot(_, _)
Dot(a, b) ==
    IF a = <<>> THEN 0 ELSE Head(a) * Head(b) + Dot(Tail(a), Tail(b))
Norm(a) == CHOOSE n \in 0..Dot(a, a) : n * n = Dot(a, a)

\* similarity = dot / (norm * norm + 1e-8), kept as the integers dot and
\* norm * norm; the 1e-8 is an infinitesimal eps added to the denominator
Similarity(current_signal, signal) ==
    [dot |-> Dot(current_signal, signal),
     norms |-> Norm(current_signal) * Norm(signal)]

\* a similarity test that also admits 0.8 itself
IsSimilar_AtLeast(similarity) ==
    5 * similarity.dot >= 4 * similarity.norms /\ similarity.norms > 0

\* similarity > 0.8: dot / (norms + eps) > 4/5 iff 5 * dot > 4 * norms,
\* both sides of the latter being integers
IsSimilar(similarity) == 5 * similarity.dot > 4 * similarity.norms

\* reward * similarity = num / (den + eps)
Score(reward, similarity) ==
    [num |-> reward * similarity.dot, den |-> similarity.norms]

\* s < t for two scores: num_s * (den_t + eps) < num_t * (den_s + eps)
ScoreLess(s, t) ==
    \/ s.num * t.den < t.num * s.den
    \/ /\ s.num * t.den = t.num * s.den
       /\ s.num < t.num

\* the (signal, reward) entries in the order the two loops visit them:
\* the keys in insertion order, each key's list from its first entry on;
\* key and at tell where the entry of a match is stored
RECURSIVE Visited(_, _)
Visited(gs, i) ==
    IF i > Len(gs) THEN <<>>
    ELSE [j \in 1..Len(gs[i].successes) |->
             [action_idx |-> gs[i].action_idx,
              entry |-> gs[i].successes[j],
              key |-> i, at |-> j]]
         \o Visited(gs, i + 1)

\* matches before the sort: the visited entries whose similarity passes
Matches(gs, current_signal) ==
    LET visited == Visited(gs, 1)
        scored == [k \in 1..Len(visited) |->
                     LET similarity == Similarity(current_signal,
                                                  visited[k].entry.signal)
                     IN  [action_idx |-> visited[k].action_idx,
                          score |-> Score(visited[k].entry.reward, similarity),
                          similarity |-> similarity,
                          key |-> visited[k].key,
                          at |-> visited[k].at]]
    IN  SelectSeq(scored, LAMBDA m : IsSimilar(m.similarity))

\* the place of x in a list sorted by increasing score
InsertPlace_Ascending(sorted, x) ==
    Cardinality({i \in 1..Len(sorted) : ~ScoreLess(x.score, sorted[i].score)})

\* list.sort(key=score, reverse=True) is stable: x goes behind every
\* element whose score is not below its own
InsertPlace(sorted, x) ==
    Cardinality({i \in 1..Len(sorted) : ~ScoreLess(sorted[i].score, x.score)})

RECURSIVE SortMatches(_)
SortMatches(matches) ==
    IF matches = <<>> THEN <<>>
    ELSE LET n == Len(matches)
             sorted == SortMatches(SubSeq(matches, 1, n - 1))
             k == InsertPlace(sorted, matches[n])
         IN  SubSeq(sorted, 1, k) \o <<matches[n]>>
                 \o SubSeq(sorted, k + 1, Len(sorted))

\* a slice that keeps one element more
SliceTo_OneMore(s, k) == SubSeq(s, 1, Min(k + 1, Len(s)))

\* a Python slice s[:k]
SliceTo(s, k) ==
    IF k >= 0 THEN SubSeq(s, 1, Min(k, Len(s)))
    ELSE SubSeq(s, 1, IF Len(s) + k > 0 THEN Len(s) + k ELSE 0)

\* the sorted matches find_matching_successes keeps, each with the place
\* of its entry in the success record
RankedMatches(gs, current_signal, top_k) ==
    SliceTo(SortMatches(Matches(gs, current_signal)), top_k)

\* find_matching_successes(current_signal, top_k): the (action_idx,
\* reward * similarity) pairs
find_matching_successes(gs, current_signal, top_k) ==
    LET ranked == RankedMatches(gs, current_signal, top_k)
    IN  [k \in 1..Len(ranked) |-> <<ranked[k].action_idx, ranked[k].score>>]

\* -------------------------------------------------- HypothesisGenerator
\* np.corrcoef(x, y)[0, 1], the Pearson correlation r of two series of n
\* integers: with cov = n*Sxy - Sx*Sy, vx = n*Sxx - Sx^2, vy = n*Syy - Sy^2,
\* r = cov / sqrt(vx * vy).  r is kept as its sign and its square (an exact
\* rational); it is NaN when a variance is 0 (0/0: a constant series, or a
\* single sample)
NaN == [nan |-> TRUE, sign |-> 0, square |-> <<0, 1>>]
Sign(x) == IF x > 0 THEN 1 ELSE IF x < 0 THEN -1 ELSE 0
corrcoef(x, y) ==
    LET n == Len(x)
        cov == n * Dot(x, y) - SeqSum(x) * SeqSum(y)
        vx == n * Dot(x, x) - SeqSum(x) * SeqSum(x)
        vy == n * Dot(y, y) - SeqSum(y) * SeqSum(y)
    IN  IF vx * vy = 0 THEN NaN
        ELSE [nan |-> FALSE, sign |-> Sign(cov),
              square |-> Reduce(<<cov * cov, vx * vy>>)]

\* a threshold test written as "not below", which NaN passes
MeetsMinimum_NotBelow(correlation, minimum) ==
    \/ correlation.nan
    \/ minimum[1] <= 0
    \/ correlation.square[1] * minimum[2] * minimum[2]
           >= minimum[1] * minimum[1] * correlation.square[2]

\* abs(correlation) >= self.min_correlation, the minimum a rational; every
\* comparison with NaN is false
MeetsMinimum(correlation, minimum) ==
    /\ ~correlation.nan
    /\ \/ minimum[1] <= 0
       \/ correlation.square[1] * minimum[2] * minimum[2]
              >= minimum[1] * minimum[1] * correlation.square[2]

\* abs(a) < abs(b) for two correlations that are not NaN
WeakerThan(a, b) ==
    a.square[1] * b.square[2] < b.square[1] * a.square[2]

\* _generate_action_proposal(external_var, correlation)
KnownExternalVars == {"air_quality", "temperature", "humidity", "exercise_level"}
generate_action_proposal(external_var, correlation) ==
    IF external_var \in KnownExternalVars
    THEN <<external_var,
           IF correlation.sign > 0 THEN "positively" ELSE "negatively">>
    ELSE <<"Investigate", external_var>>

\* signal_matrix[:, feat_idx], feat_idx counted from 1
Column(signals, f) == [i \in 1..Len(signals) |-> signals[i][f]]

\* the (external series, feature) pairs in the order the two loops visit
\* them; a series whose length differs from that of signals is skipped
RECURSIVE VisitedPairs(_, _, _)
VisitedPairs(signals, external_data, e) ==
    IF e > Len(external_data) THEN <<>>
    ELSE (IF Len(external_data[e].values) # Len(signals) THEN <<>>
          ELSE [f \in 1..Len(signals[1]) |->
                   [ext |-> e, feat |-> f,
                    correlation |-> corrcoef(Column(signals, f),
                                             external_data[e].values)]])
         \o VisitedPairs(signals, external_data, e + 1)

\* f"feature_{feat_idx}", for the feature indices 0..2
FeatureFallback(feat_idx) ==
    <<"feature_0", "feature_1", "feature_2">>[feat_idx + 1]

\* feature_names[feat_idx] if feat_idx < len(feature_names)
\* else f"feature_{feat_idx}"
dependent_variable(feature_names, feat_idx) ==
    IF feat_idx < Len(feature_names) THEN feature_names[feat_idx + 1]
    ELSE FeatureFallback(feat_idx)

\* the dict built at lines 834-843 as the k-th discovery (k from 0)
Hypothesis(k, ext_name, feature_name, correlation, sample_size) ==
    [id |-> k,
     independent_variable |-> ext_name,
     dependent_variable |-> feature_name,
     correlation |-> correlation,
     sample_size |-> sample_size,
     hypothesis_text |-> <<ext_name, feature_name>>,
     proposed_action |-> generate_action_proposal(ext_name, correlation),
     status |-> "proposed"]

\* a sort that leaves the list in the order of discovery
SortDiscovered_Unsorted(discovered) == discovered

\* discovered.sort(key=abs(correlation), reverse=True), a stable sort: x
\* goes behind every element that is not weaker than it
RECURSIVE SortDiscovered(_)
SortDiscovered(discovered) ==
    IF discovered = <<>> THEN <<>>
    ELSE LET n == Len(discovered)
             sorted == SortDiscovered(SubSeq(discovered, 1, n - 1))
             k == Cardinality({i \in 1..Len(sorted) :
                      ~WeakerThan(sorted[i].correlation,
                                  discovered[n].correlation)})
         IN  SubSeq(sorted, 1, k) \o <<discovered[n]>>
                 \o SubSeq(sorted, k + 1, Len(sorted))

\* analyze_correlations(signals, external_data, feature_names): what it
\* returns or raises, and the log afterwards.  min_sample_size is no
\* parameter: the method never reads self.min_sample_size.  Building the
\* dict of a feature that has no name raises IndexError (hypothesis_text
\* subscripts feature_names unguarded), and so does signal_matrix.shape[1]
\* on an empty list of signals; the log is extended only at the end.
analyze_correlations(log, minimum, signals, external_data, feature_names) ==
    IF signals = <<>>
    THEN (IF \E e \in 1..Len(external_data) :
                 Len(external_data[e].values) = 0
          THEN [hypotheses |-> log, ret |-> Raised("IndexError")]
          ELSE [hypotheses |-> log, ret |-> Returned(<<>>)])
    ELSE LET pairs == VisitedPairs(signals, external_data, 1)
             kept == SelectSeq(pairs,
                         LAMBDA p : MeetsMinimum(p.correlation, minimum))
             discovered ==
                 [k \in 1..Len(kept) |->
                     Hypothesis(k - 1, external_data[kept[k].ext].name,
                                dependent_variable(feature_names,
                                                   kept[k].feat - 1),
                                kept[k].correlation, Len(signals))]
         IN  IF \E k \in 1..Len(kept) : kept[k].feat > Len(feature_names)
             THEN [hypotheses |-> log, ret |-> Raised("IndexError")]
             ELSE [hypotheses |-> log \o SortDiscovered(discovered),
                   ret |-> Returned(SortDiscovered(discovered))]

\* ------------------------------------------------------------- actions
prioBuffer == Buffer(memory, priorities, position)

Push(priority) ==
    /\ pushed < MaxPushes
    /\ LET r == PrioritizedReplayMemory_push(prioBuffer, capacity,
                                             Transition(pushed + 1), priority)
       IN  /\ memory' = r.buf.memory
           /\ priorities' = r.buf.priorities
           /\ position' = r.buf.position
           /\ ret' = IF r.exc = "" THEN ReturnedNone ELSE Raised(r.exc)
    /\ pushed' = pushed + 1
    /\ lastOp' = "push"
    /\ lastArg' = priority
    /\ UNCHANGED <<sessions, variant, capacity, umemory, upushed, agentVars, digestVars, hypothesisVars, catalogVars>>

UpdatePairs ==
    [idx : (-1)..capacity, priority : PriorityValues]

UpdatePriorities(pairs) ==
    /\ LET r == PrioritizedReplayMemory_update_priorities(priorities, pairs)
       IN  /\ priorities' = r.priorities
           /\ ret' = IF r.exc = "" THEN ReturnedNone ELSE Raised(r.exc)
    /\ lastOp' = "update_priorities"
    /\ lastArg' = 0
    /\ UNCHANGED <<sessions, variant, capacity, memory, position, pushed, umemory, upushed,
                   agentVars, digestVars, hypothesisVars, catalogVars>>

Sample(batch_size, b) ==
    /\ \/ /\ SampleRaises(prioBuffer, batch_size)
          /\ ret' = Raised("ValueError")
       \/ /\ ~SampleRaises(prioBuffer, batch_size)
          /\ \E indices \in [1..batch_size -> Drawable(priorities)] :
                ret' = Returned(PrioritizedReplayMemory_sample(prioBuffer, indices, b))
    /\ lastOp' = "sample"
    /\ lastArg' = batch_size
    /\ UNCHANGED <<sessions, variant, capacity, bufferVars, pushed, umemory, upushed,
                   agentVars, digestVars, hypothesisVars, catalogVars>>

PrioritizedLen ==
    /\ ret' = PrioritizedReplayMemory_len(prioBuffer)
    /\ lastOp' = "len"
    /\ lastArg' = 0
    /\ UNCHANGED <<sessions, variant, capacity, bufferVars, pushed, umemory, upushed,
                   agentVars, digestVars, hypothesisVars, catalogVars>>

TrainStep(batch_size) ==
    /\ ret' = train_step_entry(prioBuffer, batch_size)
    /\ lastOp' = "train_step"
    /\ lastArg' = batch_size
    /\ UNCHANGED <<sessions, variant, capacity, bufferVars, pushed, umemory, upushed,
                   agentVars, digestVars, hypothesisVars, catalogVars>>

UniformPush ==
    /\ upushed < MaxPushes
    /\ umemory' = ReplayMemory_push(umemory, capacity, Transition(upushed + 1))
    /\ upushed' = upushed + 1
    /\ ret' = ReturnedNone
    /\ lastOp' = "uniform_push"
    /\ lastArg' = 0
    /\ UNCHANGED <<sessions, variant, capacity, bufferVars, pushed, agentVars, digestVars, hypothesisVars, catalogVars>>

UniformSample(batch_size) ==
    /\ \/ /\ batch_size > Len(umemory)
          /\ ret' = Raised("ValueError")
       \/ /\ batch_size <= Len(umemory)
          /\ \E batch \in ReplayMemory_sample(umemory, batch_size) :
                ret' = Returned(batch)
    /\ lastOp' = "uniform_sample"
    /\ lastArg' = batch_size
    /\ UNCHANGED <<sessions, variant, capacity, bufferVars, pushed, umemory, upushed,
                   agentVars, digestVars, hypothesisVars, catalogVars>>

UniformLen ==
    /\ ret' = ReplayMemory_len(umemory)
    /\ lastOp' = "uniform_len"
    /\ lastArg' = 0
    /\ UNCHANGED <<sessions, variant, capacity, bufferVars, pushed, umemory, upushed,
                   agentVars, digestVars, hypothesisVars, catalogVars>>

\* an Action object built by a caller of process_outcome
UserAction(type, id) ==
    Action(type, id, <<"user", id>>, "None", "None", "None", 0, <<"", 0>>)

IdxToAction(idx, confidence, choice) ==
    /\ LET r == idx_to_action(action_boundaries, idx, confidence, choice)
       IN  /\ ret' = r
           /\ curAction' = IF r.kind = "return" THEN r.val ELSE NoAction
    /\ idxIn' = idx
    /\ lastOp' = "idx_to_action"
    /\ lastArg' = 0
    /\ UNCHANGED <<sessions, variant, capacity, bufferVars, pushed, umemory, upushed, agentVars, digestVars, hypothesisVars,
                   actIn, idxOut>>

ActionToIdx(action) ==
    /\ actIn' = action
    /\ idxOut' = action_to_idx(config, action)
    /\ ret' = Returned(action_to_idx(config, action))
    /\ lastOp' = "action_to_idx"
    /\ lastArg' = 0
    /\ UNCHANGED <<sessions, variant, capacity, bufferVars, pushed, umemory, upushed, agentVars, digestVars, hypothesisVars,
                   idxIn, curAction>>

\* RewardCalculator.compute called by a client
Compute(prev_state, curr_state, action, adherence) ==
    /\ rewardIn' = [called |-> TRUE, prev_state |-> prev_state,
                    curr_state |-> curr_state, action |-> action,
                    adherence |-> adherence]
    /\ rewardOut' = RewardCalculator_compute(reward_weights, prev_state,
                                             curr_state, action, adherence)
    /\ ret' = Returned(rewardOut')
    /\ lastOp' = "compute"
    /\ lastArg' = adherence
    /\ UNCHANGED <<sessions, variant, capacity, bufferVars, pushed, umemory, upushed,
                   agentVars, catalogVars, reward_weights, global_successes,
                   hypothesisVars>>

ProcessOutcome(state, action, next_state, adherence) ==
    /\ pushed < MaxOutcomes
    /\ LET r == process_outcome(prioBuffer, capacity, global_successes, config,
                                reward_weights, pushed + 1, state, action,
                                next_state, adherence)
       IN  /\ memory' = r.buf.memory
           /\ priorities' = r.buf.priorities
           /\ position' = r.buf.position
           /\ global_successes' = r.gs
           /\ ret' = r.ret
    /\ lastCall' = [op |-> "process_outcome", state |-> state,
                    action |-> action, next_state |-> next_state,
                    adherence |-> adherence]
    /\ pushed' = pushed + 1
    /\ lastOp' = "process_outcome"
    /\ lastArg' = adherence
    /\ UNCHANGED <<sessions, variant, capacity, umemory, upushed, agentVars, catalogVars,
                   reward_weights, rewardIn, rewardOut, generatorVars>>

FindMatchingSuccesses(current_signal, top_k) ==
    /\ lastCall' = [op |-> "find_matching_successes",
                    current_signal |-> current_signal, top_k |-> top_k]
    /\ ret' = Returned(find_matching_successes(global_successes,
                                               current_signal, top_k))
    /\ lastOp' = "find_matching_successes"
    /\ lastArg' = top_k
    /\ UNCHANGED <<sessions, variant, capacity, bufferVars, pushed, umemory, upushed,
                   agentVars, catalogVars, digestVars, generatorVars>>

AnalyzeCorrelations(signals, external_data, feature_names) ==
    /\ analyses < MaxAnalyses
    /\ LET r == analyze_correlations(hypotheses, min_correlation, signals,
                                     external_data, feature_names)
       IN  /\ hypotheses' = r.hypotheses
           /\ ret' = r.ret
    /\ analyses' = analyses + 1
    /\ lastCall' = [op |-> "analyze_correlations", signals |-> signals,
                    external_data |-> external_data,
                    feature_names |-> feature_names]
    /\ lastOp' = "analyze_correlations"
    /\ lastArg' = Len(signals)
    /\ UNCHANGED <<sessions, variant, capacity, bufferVars, pushed, umemory, upushed,
                   agentVars, catalogVars, digestVars, min_sample_size,
                   min_correlation>>

\* load(path): the networks and epsilon become those of the checkpoint
Load(checkpoint) ==
    /\ online_param' = checkpoint.q_network
    /\ target_param' = checkpoint.target_network
    /\ epsilon' = checkpoint.epsilon
    /\ ret' = ReturnedNone
    /\ lastOp' = "load"
    /\ lastArg' = 0
    /\ UNCHANGED <<sessions, variant, capacity, bufferVars, pushed, umemory, upushed,
                   config, action_boundaries, digestVars, hypothesisVars,
                   catalogVars>>

\* _soft_update(): every target parameter is blended with its online
\* parameter, which is only read
SoftUpdate ==
    /\ soft_update_exact(online_param, target_param)
    /\ target_param' = soft_update(online_param, target_param)
    /\ ret' = ReturnedNone
    /\ lastOp' = "soft_update"
    /\ lastArg' = 0
    /\ UNCHANGED <<sessions, variant, capacity, bufferVars, pushed, umemory, upushed,
                   config, action_boundaries, epsilon, online_param,
                   digestVars, hypothesisVars, catalogVars>>

\* the steps of one session's push.  Session s enters push
Active(s) == sessions[s].pc # "idle"

PushCall(s) ==
    /\ ~Active(s)
    /\ pushed < MaxPushes
    /\ pushed' = pushed + 1
    /\ sessions' =
          [sessions EXCEPT
              ![s] = [pc |-> "test", transition |-> pushed + 1, cursor |-> 0,
                      overlapped |->
                          \/ sessions[s].overlapped
                          \/ \E o \in Sessions \ {s} : Active(o)]]
    /\ UNCHANGED <<variant, capacity, bufferVars, umemory, upushed, agentVars,
                   catalogVars, digestVars, hypothesisVars, lastOp, lastArg,
                   ret>>

\* if len(self.memory) < self.capacity
PushTest(s) ==
    /\ sessions[s].pc = "test"
    /\ sessions' =
          [sessions EXCEPT ![s].pc = push_branch(memory, capacity)]
    /\ UNCHANGED <<variant, capacity, bufferVars, pushed, umemory, upushed,
                   agentVars, catalogVars, digestVars, hypothesisVars, lastOp,
                   lastArg, ret>>

\* self.memory.append(transition)
PushAppendMemory(s) ==
    /\ sessions[s].pc = "append_memory"
    /\ memory' = Append(memory, Transition(sessions[s].transition))
    /\ sessions' = [sessions EXCEPT ![s].pc = "append_priority"]
    /\ UNCHANGED <<variant, capacity, priorities, position, pushed, umemory,
                   upushed, agentVars, catalogVars, digestVars, hypothesisVars,
                   lastOp, lastArg, ret>>

\* self.priorities.append(priority ** self.alpha)
PushAppendPriority(s) ==
    /\ sessions[s].pc = "append_priority"
    /\ priorities' = Append(priorities, PowAlpha(DefaultPriority))
    /\ sessions' = [sessions EXCEPT ![s].pc = "read_position"]
    /\ UNCHANGED <<variant, capacity, memory, position, pushed, umemory,
                   upushed, agentVars, catalogVars, digestVars, hypothesisVars,
                   lastOp, lastArg, ret>>

\* self.memory[self.position] = transition
PushStoreMemory(s) ==
    /\ sessions[s].pc = "store_memory"
    /\ IF position < Len(memory)
       THEN /\ memory' = [memory EXCEPT
                             ![position + 1] = Transition(sessions[s].transition)]
            /\ sessions' = [sessions EXCEPT ![s].pc = "store_priority"]
            /\ UNCHANGED <<lastOp, lastArg, ret>>
       ELSE /\ memory' = memory
            /\ sessions' = [sessions EXCEPT ![s].pc = "idle"]
            /\ lastOp' = "push"
            /\ lastArg' = DefaultPriority
            /\ ret' = Raised("IndexError")
    /\ UNCHANGED <<variant, capacity, priorities, position, pushed, umemory,
                   upushed, agentVars, catalogVars, digestVars, hypothesisVars>>

\* self.priorities[self.position] = priority ** self.alpha
PushStorePriority(s) ==
    /\ sessions[s].pc = "store_priority"
    /\ IF position < Len(priorities)
       THEN /\ priorities' = [priorities EXCEPT
                                 ![position + 1] = PowAlpha(DefaultPriority)]
            /\ sessions' = [sessions EXCEPT ![s].pc = "read_position"]
            /\ UNCHANGED <<lastOp, lastArg, ret>>
       ELSE /\ priorities' = priorities
            /\ sessions' = [sessions EXCEPT ![s].pc = "idle"]
            /\ lastOp' = "push"
            /\ lastArg' = DefaultPriority
            /\ ret' = Raised("IndexError")
    /\ UNCHANGED <<variant, capacity, memory, position, pushed, umemory,
                   upushed, agentVars, catalogVars, digestVars, hypothesisVars>>

\* self.position = (self.position + 1) % self.capacity: the cursor is read,
PushReadPosition(s) ==
    /\ sessions[s].pc = "read_position"
    /\ sessions' = [sessions EXCEPT ![s].pc = "write_position",
                                    ![s].cursor = position]
    /\ UNCHANGED <<variant, capacity, bufferVars, pushed, umemory, upushed,
                   agentVars, catalogVars, digestVars, hypothesisVars, lastOp,
                   lastArg, ret>>

\* and then written, which ends the call
PushWritePosition(s) ==
    /\ sessions[s].pc = "write_position"
    /\ position' = (sessions[s].cursor + 1) % capacity
    /\ sessions' = [sessions EXCEPT ![s].pc = "idle"]
    /\ lastOp' = "push"
    /\ lastArg' = DefaultPriority
    /\ ret' = ReturnedNone
    /\ UNCHANGED <<variant, capacity, memory, priorities, pushed, umemory,
                   upushed, agentVars, catalogVars, digestVars, hypothesisVars>>

\* ------------------------------------------------------- specifications
\* the configurations: any four sizes with at least one action in all
Configs ==
    {cfg \in {RLConfig(n, e, s, l) :
                 n \in 0..MaxCategory, e \in 0..MaxCategory,
                 s \in 0..MaxCategory, l \in 0..MaxCategory} :
        total_actions(cfg) >= 1}

\* RLConfig's default category sizes
DefaultNutrients == 50
DefaultExercises == 20
DefaultSleepPatterns == 10
DefaultLifestyle == 30
DefaultConfig ==
    RLConfig(DefaultNutrients, DefaultExercises, DefaultSleepPatterns,
             DefaultLifestyle)

\* a parameter of the freshly initialised q_network
InitialParam == 500

\* RLConfig's default reward weights 0.6, 0.3, 0.1
DefaultSignalWeight == 6
DefaultSubjectiveWeight == 3
DefaultAdherenceWeight == 1
DefaultWeights ==
    RewardWeights(DefaultSignalWeight, DefaultSubjectiveWeight,
                  DefaultAdherenceWeight)

\* HypothesisGenerator's default min_sample_size, and its default
\* min_correlation 0.5 as a rational
DefaultMinSampleSize == 100
DefaultMinCorrelation == <<1, 2>>

NoState == State(0, <<>>, <<>>)
NoCompute ==
    [called |-> FALSE, prev_state |-> NoState, curr_state |-> NoState,
     action |-> NoAction, adherence |-> 0]
NoCall == [op |-> "none"]

\* a FeedbackDigest on which nothing was called yet
InitDigest(weights) ==
    /\ reward_weights \in weights
    /\ global_successes = <<>>
    /\ rewardIn = NoCompute
    /\ rewardOut = RewardDict(0, 0, 0, 0)

\* a HypothesisGenerator on which nothing was called yet
InitHypothesis(sizes, correlations) ==
    /\ min_sample_size \in sizes
    /\ min_correlation \in correlations
    /\ hypotheses = <<>>
    /\ analyses = 0
    /\ lastCall = NoCall

InitAgent(variants, caps, cfgs, idxs, actions) ==
    /\ variant \in variants
    /\ capacity \in caps
    /\ memory = <<>>
    /\ priorities = <<>>
    /\ position = 0
    /\ pushed = 0
    /\ umemory = <<>>
    /\ upushed = 0
    /\ config \in cfgs
    /\ action_boundaries = ActionBoundaries(config)
    /\ epsilon = EpsilonStart
    /\ online_param = InitialParam
    /\ target_param = online_param
    /\ sessions = [s \in Sessions |-> IdleSession]
    /\ idxIn \in idxs
    /\ curAction = NoAction
    /\ actIn \in actions
    /\ idxOut = 0
    /\ lastOp = "init"
    /\ lastArg = 0
    /\ ret = NotCalled

InitWith(variants, caps, cfgs, idxs, actions) ==
    /\ InitAgent(variants, caps, cfgs, idxs, actions)
    /\ InitDigest({DefaultWeights})
    /\ InitHypothesis({DefaultMinSampleSize}, {DefaultMinCorrelation})

\* the agent's prioritized buffer and the entry of its learning step
InitBuffer ==
    InitWith({"prioritized"}, Capacities, {DefaultConfig}, {0}, {NoAction})

NextBuffer ==
    \/ \E priority \in PriorityValues : Push(priority)
    \/ \E n \in 0..MaxUpdates : \E pairs \in [1..n -> UpdatePairs] :
          UpdatePriorities(pairs)
    \/ PrioritizedLen
    \/ \E batch_size \in BatchSizes : TrainStep(batch_size)

SpecBuffer == InitBuffer /\ [][NextBuffer]_vars

\* the two stores behind the contract push / sample / len: a store of
\* either variant is built, filled and sampled
InitStores ==
    InitWith({"prioritized", "uniform"}, Capacities, {DefaultConfig}, {0},
             {NoAction})

NextStores ==
    \/ /\ variant = "prioritized"
       /\ \E priority \in PriorityValues : Push(priority)
    \/ /\ variant = "prioritized"
       /\ \E batch_size \in BatchSizes, b \in BetaFifths : Sample(batch_size, b)
    \/ /\ variant = "prioritized"
       /\ PrioritizedLen
    \/ /\ variant = "uniform"
       /\ UniformPush
    \/ /\ variant = "uniform"
       /\ \E batch_size \in BatchSizes : UniformSample(batch_size)
    \/ /\ variant = "uniform"
       /\ UniformLen

SpecStores == InitStores /\ [][NextStores]_vars

\* index -> Action -> index: under every configuration of the category
\* sizes an index idxIn (one below and one past the action space included)
\* is converted by _idx_to_action, and the Action by _action_to_idx
InitCatalog ==
    /\ InitWith({"prioritized"}, {MaxCapacity}, Configs,
                (-1)..(4 * MaxCategory), {NoAction})
    /\ idxIn <= total_actions(config)

NextCatalog ==
    \/ \E confidence \in Confidences, choice \in ReasoningChoices :
          IdxToAction(idxIn, confidence, choice)
    \/ /\ curAction # NoAction
       /\ ActionToIdx(curAction)

SpecCatalog == InitCatalog /\ [][NextCatalog]_vars

\* Action -> index -> Action: an Action actIn of any category and local id
\* (one past the category's size included) is converted by _action_to_idx,
\* and the index by _idx_to_action
UserActions ==
    {UserAction(ActionType[i], id) : i \in 1..Len(ActionType),
                                     id \in 0..MaxCategory}

InitInverse ==
    InitWith({"prioritized"}, {MaxCapacity}, Configs, {0}, UserActions)

NextInverse ==
    \/ ActionToIdx(actIn)
    \/ /\ lastOp # "init"
       /\ \E confidence \in Confidences, choice \in ReasoningChoices :
             IdxToAction(idxOut, confidence, choice)

SpecInverse == InitInverse /\ [][NextInverse]_vars

\* the feedback digest of an agent with the default catalog: outcomes are
\* processed, the success record is queried, learning steps are attempted.
\* Under AdherenceWeights full adherence alone earns exactly 0.5.
AdherenceWeights == RewardWeights(0, 0, 25)
OutcomeSignals == {<<4, 3>>, <<3, 4>>}
\* the queries: a stored fingerprint, one at cosine 117/125 of <<4, 3>> and
\* exactly 4/5 of <<3, 4>>, and the zero vector
QuerySignals == {<<4, 3>>, <<24, 7>>, <<0, 0>>}
OutcomeActions == {UserAction("nutrient", 0), UserAction("exercise", 1)}
BeforeStates == {State(50, <<>>, sig) : sig \in OutcomeSignals}
\* the measurements after the action, each with an adherence in tenths:
\* nothing changed (adherence 0 or 1.0), wellbeing improved, both scores
\* improved (adherence 0, or 2.0 which is outside [0, 1])
Outcomes(state) ==
    {<<State(50, <<>>, state.current_signal), 0>>,
     <<State(50, <<>>, state.current_signal), 10>>,
     <<State(50, <<110>>, state.current_signal), 0>>,
     <<State(80, <<110>>, state.current_signal), 0>>,
     <<State(80, <<110>>, state.current_signal), 20>>}
DefaultBatchSize == 32

InitFeedback ==
    /\ InitAgent({"prioritized"}, 1..2, {DefaultConfig}, {0}, {NoAction})
    /\ InitDigest({DefaultWeights, AdherenceWeights})
    /\ InitHypothesis({DefaultMinSampleSize}, {DefaultMinCorrelation})

NextFeedback ==
    \/ \E state \in BeforeStates, action \in OutcomeActions :
          \E outcome \in Outcomes(state) :
             ProcessOutcome(state, action, outcome[1], outcome[2])
    \/ \E current_signal \in QuerySignals, top_k \in 1..MaxTopK :
          FindMatchingSuccesses(current_signal, top_k)
    \/ \E batch_size \in {1, DefaultBatchSize} : TrainStep(batch_size)

SpecFeedback == InitFeedback /\ [][NextFeedback]_vars

\* the reward calculator of an agent whose store is being filled: compute
\* is called on pairs of measurements, equal ones included, with adherences
\* -0.5, 0, 1.0 and 2.0, under three choices of the weights
EqualWeights == RewardWeights(10, 10, 10)
RewardStates ==
    {State(50, <<>>, <<1, 0>>), State(60, <<50>>, <<1, 0>>),
     State(80, <<110>>, <<1, 0>>), State(40, <<30>>, <<1, 0>>)}
RewardAdherences == {-5, 0, 10, 20}

InitReward ==
    /\ InitAgent({"prioritized"}, {1}, {DefaultConfig}, {0}, {NoAction})
    /\ InitDigest({DefaultWeights, AdherenceWeights, EqualWeights})
    /\ InitHypothesis({DefaultMinSampleSize}, {DefaultMinCorrelation})

NextReward ==
    \/ \E prev_state \in RewardStates, curr_state \in RewardStates,
          adherence \in RewardAdherences :
          Compute(prev_state, curr_state, UserAction("nutrient", 0), adherence)
    \/ \E priority \in PriorityValues : Push(priority)

SpecReward == InitReward /\ [][NextReward]_vars

\* the hypothesis generator: three samples of two features are analysed
\* against one or two external series, under the default thresholds
\* (100 samples, 0.5) and under thresholds 0.  The series have the
\* correlations 1, -1, 1/2, -1/2 and NaN (a constant series) with one
\* another; one external series is too short; feature_names names both
\* features or only the first.
Rows(column1, column2) ==
    [i \in 1..Len(column1) |-> <<column1[i], column2[i]>>]
SignalMatrices ==
    {Rows(c1, c2) : c1 \in {<<0, 1, 2>>, <<1, 1, 1>>},
                    c2 \in {<<0, 2, 1>>, <<1, 1, 1>>}}
Series(name, values) == [name |-> name, values |-> values]
ExternalData ==
    {<<Series("air_quality", <<0, 1, 2>>)>>,
     <<Series("air_quality", <<1, 1, 1>>)>>,
     <<Series("air_quality", <<0, 1, 2>>), Series("temperature", <<0, 1>>)>>,
     <<Series("air_quality", <<2, 1, 0>>), Series("pollen", <<0, 2, 1>>)>>}
FeatureNames == {<<"heart_rate", "respiration">>, <<"heart_rate">>}

InitGenerator ==
    /\ InitAgent({"prioritized"}, {1}, {DefaultConfig}, {0}, {NoAction})
    /\ InitDigest({DefaultWeights})
    /\ \/ InitHypothesis({DefaultMinSampleSize}, {DefaultMinCorrelation})
       \/ InitHypothesis({0}, {<<0, 1>>})

NextGenerator ==
    \E signals \in SignalMatrices, external_data \in ExternalData,
       feature_names \in FeatureNames :
       AnalyzeCorrelations(signals, external_data, feature_names)

SpecGenerator == InitGenerator /\ [][NextGenerator]_vars

\* the target network: an agent is built (target = online), checkpoints are
\* loaded and the target is softly updated.  A loaded parameter is 0 or a
\* power of TauDen of either sign, so that up to MaxSoftUpdates updates
\* after a load are exact
ParamUnit == Pow(TauDen, MaxSoftUpdates)
ParamValues ==
    {0} \cup {Pow(TauDen, j) : j \in 0..MaxSoftUpdates}
        \cup {-Pow(TauDen, j) : j \in 0..MaxSoftUpdates}
Checkpoints ==
    [q_network : ParamValues, target_network : ParamValues,
     epsilon : {EpsilonStart, EpsilonEnd}]

InitTarget ==
    InitWith({"prioritized"}, {1}, {DefaultConfig}, {0}, {NoAction})

NextTarget ==
    \/ \E checkpoint \in Checkpoints : Load(checkpoint)
    \/ SoftUpdate

SpecTarget == InitTarget /\ [][NextTarget]_vars

\* one prioritized buffer of capacity at least 1 shared by two sessions,
\* whose pushes run statement by statement in any interleaving
InitSessions ==
    InitWith({"prioritized"}, {c \in Capacities : c >= 1}, {DefaultConfig},
             {0}, {NoAction})

NextSessions ==
    \/ \E s \in Sessions : PushCall(s)
    \/ \E s \in Sessions : PushTest(s)
    \/ \E s \in Sessions : PushAppendMemory(s)
    \/ \E s \in Sessions : PushAppendPriority(s)
    \/ \E s \in Sessions : PushStoreMemory(s)
    \/ \E s \in Sessions : PushStorePriority(s)
    \/ \E s \in Sessions : PushReadPosition(s)
    \/ \E s \in Sessions : PushWritePosition(s)

SpecSessions == InitSessions /\ [][NextSessions]_vars

\* the priority refresh: a buffer is filled with transitions of the default
\* priority and update_priorities is called on it, as train_step calls it,
\* with the indices of a batch and a positive priority (a training error
\* plus 1e-6) for each.  The batch is fixed when the buffer is built
RefreshPairs ==
    [idx : 0..(MaxCapacity - 1), priority : PriorityValues \ {0}]
RefreshCalls ==
    {[op |-> "update_priorities", pairs |-> pairs] :
        pairs \in UNION {[1..n -> RefreshPairs] : n \in 0..MaxBatch}}

InitRefresh ==
    /\ InitAgent({"prioritized"}, {c \in Capacities : c >= 1}, {DefaultConfig},
                 {0}, {NoAction})
    /\ InitDigest({DefaultWeights})
    /\ min_sample_size = DefaultMinSampleSize
    /\ min_correlation = DefaultMinCorrelation
    /\ hypotheses = <<>>
    /\ analyses = 0
    /\ lastCall \in RefreshCalls

NextRefresh ==
    \/ Push(DefaultPriority)
    \/ UpdatePriorities(lastCall.pairs)

SpecRefresh == InitRefresh /\ [][NextRefresh]_vars

\* ================================================================ claims

\* C1: for every capacity >= 1, after any sequence of push and
\* update_priorities calls the prioritized buffer stores at most capacity
\* transitions and the priorities list is exactly as long as the
\* transitions list.
C1_LengthInvariant ==
    capacity >= 1 =>
        /\ Len(memory) <= capacity
        /\ Len(priorities) = Len(memory)

\* a full buffer that has wrapped around and then had a priority rewritten
C1_Witness ==
    /\ capacity >= 2
    /\ pushed > capacity
    /\ Len(memory) = capacity
    /\ lastOp = "update_priorities"
    /\ ret = ReturnedNone

\* the place (1-based) of the transition pushed earliest among those stored
Oldest(m) == CHOOSE i \in 1..Len(m) : \A j \in 1..Len(m) : m[i].id <= m[j].id

\* C2: a push into a full prioritized buffer replaces the entry pushed
\* earliest among those stored, and its priority, leaves every other entry
\* and priority unchanged, and the buffer then holds exactly the most
\* recent capacity pushes.
C2_PushEvictsOldest ==
    [][ (lastOp' = "push" /\ pushed' = pushed + 1
            /\ capacity >= 1 /\ Len(memory) = capacity)
        => /\ ret' = ReturnedNone
           /\ Len(memory') = capacity
           /\ Len(priorities') = capacity
           /\ memory'[Oldest(memory)] = Transition(pushed')
           /\ priorities'[Oldest(memory)] = PowAlpha(lastArg')
           /\ \A j \in 1..capacity :
                 j # Oldest(memory) =>
                     /\ memory'[j] = memory[j]
                     /\ priorities'[j] = priorities[j]
           /\ {memory'[j].id : j \in 1..capacity}
                 = (pushed' - capacity + 1)..pushed' ]_vars

\* a push has overwritten an entry of a full buffer holding several
C2_Witness ==
    /\ capacity >= 2
    /\ pushed > capacity + 1
    /\ lastOp = "push"
    /\ ret = ReturnedNone
    /\ lastArg > 0

\* C6: a learning step on a store holding fewer than batch_size entries
\* returns None without raising and leaves the buffer entries, priorities,
\* write cursor, target-network parameters and epsilon unchanged.
C6_NoOpOnInsufficientData ==
    [][ (lastOp' = "train_step" /\ Len(memory) < lastArg')
        => /\ ret' = ReturnedNone
           /\ UNCHANGED <<memory, priorities, position, target_param,
                          epsilon>> ]_vars

\* the indices of the k-th range of the boundaries
RangeSet(bounds, k) == {i \in 0..(4 * (MaxCategory + 1)) :
                           bounds[k][1] <= i /\ i < bounds[k][2]}

\* C3: for every valid global index i in [0, total) and any confidence,
\* _idx_to_action returns an Action and _action_to_idx of that Action is i.
C3_IndexRoundTrip ==
    /\ (lastOp = "idx_to_action" /\ 0 <= idxIn /\ idxIn < total_actions(config))
          => (ret.kind = "return" /\ curAction # NoAction)
    /\ (lastOp = "action_to_idx" /\ actIn = curAction) => idxOut = idxIn

\* an index past the first category, with a non-zero local id, went round
C3_Witness ==
    /\ lastOp = "action_to_idx"
    /\ actIn = curAction
    /\ curAction.action_type = "lifestyle"
    /\ curAction.action_id >= 1
    /\ config.num_nutrients >= 1
    /\ idxOut = idxIn

\* the four ranges are half-open, contiguous, in the fixed category order,
\* pairwise disjoint, and cover exactly [0, total)
RangesPartition ==
    /\ Len(action_boundaries) = Len(ActionType)
    /\ action_boundaries[1][1] = 0
    /\ \A k \in 1..3 : action_boundaries[k][2] = action_boundaries[k + 1][1]
    /\ \A k \in 1..4 :
          action_boundaries[k][2] - action_boundaries[k][1]
              = CategorySizes(config)[k]
    /\ action_boundaries[4][2] = total_actions(config)
    /\ \A j, k \in 1..4 :
          j # k => RangeSet(action_boundaries, j)
                      \cap RangeSet(action_boundaries, k) = {}
    /\ UNION {RangeSet(action_boundaries, k) : k \in 1..4}
          = 0..(total_actions(config) - 1)

LifestyleStart ==
    config.num_nutrients + config.num_exercises + config.num_sleep_patterns

\* C4 as claimed: for every configuration of the four category sizes the
\* ranges partition [0, total) in category order, and index 0 converts to
\* (NUTRIENT, 0) and index num_nutrients + num_exercises +
\* num_sleep_patterns converts to (LIFESTYLE, 0).
C4_AsClaimed ==
    /\ RangesPartition
    /\ (lastOp = "idx_to_action" /\ idxIn = 0)
          => (curAction.action_type = "nutrient" /\ curAction.action_id = 0)
    /\ (lastOp = "idx_to_action" /\ idxIn = LifestyleStart)
          => (curAction.action_type = "lifestyle" /\ curAction.action_id = 0)

\* C4 amended: for every configuration of the four category sizes the
\* ranges partition [0, total) in category order; index 0 converts to
\* (NUTRIENT, 0) when num_nutrients >= 1, and index num_nutrients +
\* num_exercises + num_sleep_patterns converts to (LIFESTYLE, 0) when
\* num_lifestyle >= 1.
C4_RangesPartition ==
    /\ RangesPartition
    /\ (lastOp = "idx_to_action" /\ idxIn = 0 /\ config.num_nutrients >= 1)
          => (curAction.action_type = "nutrient" /\ curAction.action_id = 0)
    /\ (lastOp = "idx_to_action" /\ idxIn = LifestyleStart
            /\ config.num_lifestyle >= 1)
          => (curAction.action_type = "lifestyle" /\ curAction.action_id = 0)

\* the first lifestyle index of a configuration with no empty category
\* was converted
C4_Witness ==
    /\ \A k \in 1..4 : CategorySizes(config)[k] >= 1
    /\ lastOp = "idx_to_action"
    /\ idxIn = LifestyleStart
    /\ curAction.action_type = "lifestyle"
    /\ curAction.action_id = 0

\* an Action of one of the four kinds with a local id within its category
ValidAction(cfg, action) ==
    \E k \in 1..Len(ActionType) :
        /\ action.action_type = ActionType[k]
        /\ 0 <= action.action_id
        /\ action.action_id < CategorySizes(cfg)[k]

\* C5: for every Action of one of the four kinds whose local id is within
\* its category's size, _idx_to_action(_action_to_idx(action)) has the same
\* category and local id, and no Action with another (category, local id)
\* gets the same global index.
C5_ActionRoundTrip ==
    /\ (lastOp = "idx_to_action" /\ idxIn = idxOut /\ ValidAction(config, actIn))
          => /\ ret.kind = "return"
             /\ curAction.action_type = actIn.action_type
             /\ curAction.action_id = actIn.action_id
    /\ (lastOp # "init" /\ ValidAction(config, actIn))
          => \A other \in UserActions :
                (/\ ValidAction(config, other)
                 /\ <<other.action_type, other.action_id>>
                       # <<actIn.action_type, actIn.action_id>>)
                => action_to_idx(config, other) # idxOut

\* a sleep Action with a non-zero local id went round
C5_Witness ==
    /\ lastOp = "idx_to_action"
    /\ idxIn = idxOut
    /\ ValidAction(config, actIn)
    /\ actIn.action_type = "sleep"
    /\ actIn.action_id >= 1
    /\ config.num_nutrients >= 1
    /\ curAction.action_type = "sleep"

\* the number of entries the store in use holds, and of pushes made on it
Stored == IF variant = "uniform" THEN Len(umemory) ELSE Len(memory)
Pushes == IF variant = "uniform" THEN upushed ELSE pushed

\* C7: both store variants expose push, sample and len; for both, after k
\* pushes into a buffer of capacity C, len reports min(k, C).
C7_LenIsMinPushesCapacity ==
    lastOp \in {"len", "uniform_len"} =>
        /\ ret.kind = "return"
        /\ ret.val = Min(Pushes, capacity)

\* C8: for both store variants, sample called when the store holds fewer
\* entries than the requested batch size fails (InsufficientSamples) and
\* leaves the store unchanged.
C8_SampleFailsOnShortStore ==
    [][ (lastOp' \in {"sample", "uniform_sample"} /\ Stored < lastArg')
        => /\ ret'.kind = "raise"
           /\ UNCHANGED <<memory, priorities, position, umemory>> ]_vars

AllPositive(prios) == \A i \in 1..Len(prios) : prios[i] > 0
AllZero(prios) == \A i \in 1..Len(prios) : prios[i] = 0

\* C9: for any batch sampled from a non-empty prioritized store whose
\* stored priorities are all positive, and any beta >= 0, every returned
\* importance weight lies in (0, 1] and the largest one is exactly 1.
C9_WeightsInUnitInterval ==
    (/\ lastOp = "sample"
     /\ ret.kind = "return"
     /\ Len(memory) >= 1
     /\ AllPositive(priorities))
    => LET weights == ret.val.weights
       IN  /\ Len(weights) = lastArg
           /\ \A k \in 1..Len(weights) :
                 /\ RatLess(<<0, 1>>, weights[k])
                 /\ ~RatLess(RatOne, weights[k])
           /\ \E k \in 1..Len(weights) : weights[k] = RatOne

\* a batch with beta > 0 drawn from unequal positive priorities holds a
\* weight below 1 next to the weight 1
C9_Witness ==
    /\ lastOp = "sample"
    /\ ret.kind = "return"
    /\ Len(memory) >= 2
    /\ AllPositive(priorities)
    /\ \E k \in 1..Len(ret.val.weights) : RatLess(ret.val.weights[k], RatOne)
    /\ \E k \in 1..Len(ret.val.weights) : ret.val.weights[k] = RatOne

\* C10: when every stored priority is zero, sample guards the division and
\* returns all weights equal to 1.
C10_ZeroPrioritiesGuarded ==
    (/\ lastOp = "sample"
     /\ lastArg >= 1
     /\ Len(memory) >= 1
     /\ AllZero(priorities))
    => /\ ret.kind = "return"
       /\ \A k \in 1..Len(ret.val.weights) : ret.val.weights[k] = RatOne

\* C11: _idx_to_action given an index outside [0, total), negative or at
\* least total, fails (the error the loop's missing assignment raises, the
\* program's form of ActionIndexOutOfRange) and returns no Action.
C11_OutOfRangeIndexFails ==
    (/\ lastOp = "idx_to_action"
     /\ (idxIn < 0 \/ idxIn >= total_actions(config)))
    => /\ ret = Raised("UnboundLocalError")
       /\ curAction = NoAction

\* the index just past a non-empty last category was converted and failed
C11_Witness ==
    /\ lastOp = "idx_to_action"
    /\ config.num_lifestyle >= 1
    /\ idxIn = total_actions(config)
    /\ ret.kind = "raise"
    /\ curAction = NoAction

\* C12: an adherence outside [0, 1] passed to RewardCalculator.compute,
\* directly or through process_outcome, makes the call fail
\* (InvalidAdherence): no reward is returned, no transition is pushed and
\* no success is recorded.
C12_InvalidAdherenceRejected ==
    [][ (/\ lastOp' \in {"compute", "process_outcome"}
         /\ (lastArg' < 0 \/ lastArg' > 10))
        => /\ ret'.kind = "raise"
           /\ UNCHANGED <<memory, priorities, position, global_successes>> ]_vars

\* the list of successes recorded under an action index
Entries(gs, action_idx) ==
    IF HasKey(gs, action_idx) THEN gs[KeyPlace(gs, action_idx)].successes
    ELSE <<>>
Keys(gs) == {gs[i].action_idx : i \in 1..Len(gs)}

\* C13: process_outcome appends (action_index, state.current_signal,
\* reward) to the success record exactly when the reward is strictly above
\* 0.5; whether or not it does, it pushes exactly one transition into the
\* prioritized store and returns the reward.
C13_SuccessIffAboveThreshold ==
    [][ (lastOp' = "process_outcome" /\ pushed' = pushed + 1)
        => LET call == lastCall'
               reward == RewardCalculator_compute(
                             reward_weights, call.state, call.next_state,
                             call.action, call.adherence).total
               action_idx == action_to_idx(config, call.action)
           IN  /\ ret' = Returned(reward)
               /\ reward > 500 =>
                     /\ Entries(global_successes', action_idx)
                            = Append(Entries(global_successes, action_idx),
                                     Success(call.state.current_signal, reward))
                     /\ Keys(global_successes')
                            = Keys(global_successes) \cup {action_idx}
                     /\ \A a \in Keys(global_successes) \ {action_idx} :
                           Entries(global_successes', a)
                               = Entries(global_successes, a)
               /\ reward <= 500 => global_successes' = global_successes
               /\ Len(memory') = Min(Len(memory) + 1, capacity)
               /\ Cardinality({i \in 1..Len(memory') :
                                  memory'[i].id = pushed'}) = 1
               /\ \A i \in 1..Len(memory') :
                     \/ /\ memory'[i].id = pushed'
                        /\ memory'[i].action = action_idx
                        /\ memory'[i].reward = reward
                     \/ /\ i <= Len(memory)
                        /\ memory'[i] = memory[i] ]_vars

\* of two outcomes processed, the one of reward 0.9 is in the record and
\* the other, of a reward not above 0.5, is not
C13_Witness ==
    /\ lastOp = "process_outcome"
    /\ pushed = 2
    /\ ret = Returned(900)
    /\ Len(global_successes) = 1
    /\ Len(global_successes[1].successes) = 1
    /\ global_successes[1].successes[1].reward = 900

IsPrefix(s, t) == Len(s) <= Len(t) /\ SubSeq(t, 1, Len(s)) = s

\* C14: the success record is append-only across any sequence of
\* process_outcome, find_matching_successes and train_step calls: each
\* action index's list only grows at its end, the entries already stored
\* keep their place and value, and no key is removed.
C14_SuccessRecordAppendOnly ==
    [][ \A i \in 1..Len(global_successes) :
           /\ i <= Len(global_successes')
           /\ global_successes'[i].action_idx = global_successes[i].action_idx
           /\ IsPrefix(global_successes[i].successes,
                       global_successes'[i].successes) ]_vars

\* a list that has grown to two different entries and was then queried
C14_Witness ==
    /\ lastOp = "find_matching_successes"
    /\ \E i \in 1..Len(global_successes) :
          /\ Len(global_successes[i].successes) = 2
          /\ global_successes[i].successes[1] # global_successes[i].successes[2]

\* C15: find_matching_successes never returns an entry whose cosine
\* similarity to the query is 0.8 or less: every returned pair is the
\* action index and reward * similarity of a stored entry whose cosine
\* similarity exceeds 4/5.
C15_OnlySimilarEntriesReturned ==
    lastOp = "find_matching_successes" =>
        LET query == lastCall.current_signal
            ranked == RankedMatches(global_successes, query, lastCall.top_k)
        IN  /\ ret.kind = "return"
            /\ Len(ret.val) = Len(ranked)
            /\ \A k \in 1..Len(ranked) :
                  LET entry == global_successes[ranked[k].key]
                                   .successes[ranked[k].at]
                  IN  /\ ret.val[k][1] = global_successes[ranked[k].key].action_idx
                      /\ ret.val[k][2].num = entry.reward * Dot(query, entry.signal)
                      /\ ret.val[k][2].den = Norm(query) * Norm(entry.signal)
                      /\ 5 * Dot(query, entry.signal)
                             > 4 * Norm(query) * Norm(entry.signal)

\* a query that one stored fingerprint matches and another, at cosine
\* exactly 0.8, does not: only the first is returned
C15_Witness ==
    /\ lastOp = "find_matching_successes"
    /\ lastCall.current_signal = <<24, 7>>
    /\ lastCall.top_k = 2
    /\ \E i \in 1..Len(global_successes) :
          \E j \in 1..Len(global_successes[i].successes) :
             global_successes[i].successes[j].signal = <<3, 4>>
    /\ Len(ret.val) = 1

\* the rank (1 = best, 0 = not matched) of the entry stored at list place
\* at of the key-th item, among all sorted matches of a query
RankOf(gs, query, key, at) ==
    LET sorted == SortMatches(Matches(gs, query))
    IN  IF \E k \in 1..Len(sorted) : sorted[k].key = key /\ sorted[k].at = at
        THEN CHOOSE k \in 1..Len(sorted) :
                 sorted[k].key = key /\ sorted[k].at = at
        ELSE 0
RewardRaises == {1, 40, 500}
WithRaisedReward(gs, key, at, raise) ==
    [gs EXCEPT ![key].successes[at].reward = @ + raise]

\* C16: find_matching_successes is monotonic in reward: if one stored
\* entry's reward is raised and every fingerprint is unchanged, that
\* entry's rank for a query never becomes worse, and if it was in the
\* top-k it stays in the top-k.
C16_RankMonotonicInReward ==
    lastOp = "find_matching_successes" =>
        \A key \in 1..Len(global_successes) :
           \A at \in 1..Len(global_successes[key].successes) :
              \A raise \in RewardRaises :
                 LET query == lastCall.current_signal
                     before == RankOf(global_successes, query, key, at)
                     after == RankOf(WithRaisedReward(global_successes, key,
                                                      at, raise),
                                     query, key, at)
                 IN  /\ (before = 0) <=> (after = 0)
                     /\ after <= before
                     /\ (before >= 1 /\ before <= lastCall.top_k)
                            => (after >= 1 /\ after <= lastCall.top_k)

\* an entry ranked second for the query, outside the top-1, that a raised
\* reward brings to rank 1
C16_Witness ==
    /\ lastOp = "find_matching_successes"
    /\ lastCall.top_k = 1
    /\ \E key \in 1..Len(global_successes) :
          \E at \in 1..Len(global_successes[key].successes) :
             /\ RankOf(global_successes, lastCall.current_signal, key, at) = 2
             /\ \E raise \in RewardRaises :
                   RankOf(WithRaisedReward(global_successes, key, at, raise),
                          lastCall.current_signal, key, at) = 1

\* C17: RewardCalculator.compute is pure: it changes no state of the agent
\* or of the digest, a call with the arguments of the previous call returns
\* what that call returned whatever happened in between, and when
\* curr_state equals prev_state and adherence is 0 the total and the three
\* components are 0, for every choice of the three weights.
C17_ComputeIsPure ==
    [][ lastOp' = "compute"
        => /\ UNCHANGED <<bufferVars, pushed, agentVars, reward_weights,
                          global_successes>>
           /\ (rewardIn.called /\ rewardIn' = rewardIn)
                 => rewardOut' = rewardOut
           /\ (rewardIn'.curr_state = rewardIn'.prev_state
                  /\ rewardIn'.adherence = 0)
                 => rewardOut' = RewardDict(0, 0, 0, 0) ]_vars

\* under weights other than the defaults, after a push into the store,
\* compute was called on equal states with adherence 0 and returned zeros
C17_Witness ==
    /\ lastOp = "compute"
    /\ pushed >= 1
    /\ reward_weights = EqualWeights
    /\ rewardIn.curr_state = rewardIn.prev_state
    /\ rewardIn.adherence = 0
    /\ rewardOut = RewardDict(0, 0, 0, 0)

\* abs(correlation) >= minimum, from the sign-free square of r
AtLeast(correlation, minimum) ==
    /\ ~correlation.nan
    /\ correlation.square[1] * minimum[2] * minimum[2]
           >= minimum[1] * minimum[1] * correlation.square[2]

\* C18: analyze_correlations keeps a (feature, external-variable) pair
\* only if the absolute correlation meets min_correlation and the sample
\* count meets min_sample_size: when there are fewer signal samples than
\* min_sample_size no hypothesis is emitted or logged.
C18_KeptOnlyAboveBothMinimums ==
    /\ \A k \in 1..Len(hypotheses) :
          /\ AtLeast(hypotheses[k].correlation, min_correlation)
          /\ hypotheses[k].sample_size >= min_sample_size
    /\ (lastOp = "analyze_correlations" /\ ret.kind = "return")
          => \A k \in 1..Len(ret.val) :
                /\ AtLeast(ret.val[k].correlation, min_correlation)
                /\ ret.val[k].sample_size >= min_sample_size

IsConstant(series) ==
    \A i \in 1..Len(series) : \A j \in 1..Len(series) : series[i] = series[j]

\* C19: a pair whose correlation is NaN, because a series is constant,
\* yields no hypothesis and nothing in the log, for every min_correlation
\* and min_sample_size, 0 included: what a call returns is what it appends
\* to the log, and it holds no pair with a constant series.
C19_NaNYieldsNoHypothesis ==
    /\ \A k \in 1..Len(hypotheses) : ~hypotheses[k].correlation.nan
    /\ (lastOp = "analyze_correlations" /\ ret.kind = "return")
          => /\ Len(ret.val) <= Len(hypotheses)
             /\ SubSeq(hypotheses, Len(hypotheses) - Len(ret.val) + 1,
                       Len(hypotheses)) = ret.val
             /\ \A e \in 1..Len(lastCall.external_data) :
                   \A f \in 1..Len(lastCall.signals[1]) :
                      (/\ Len(lastCall.external_data[e].values)
                              = Len(lastCall.signals)
                       /\ f <= Len(lastCall.feature_names)
                       /\ \/ IsConstant(lastCall.external_data[e].values)
                          \/ IsConstant(Column(lastCall.signals, f)))
                      => ~\E k \in 1..Len(ret.val) :
                            /\ ret.val[k].independent_variable
                                   = lastCall.external_data[e].name
                            /\ ret.val[k].dependent_variable
                                   = lastCall.feature_names[f]

\* under thresholds 0, a call on a varying and a constant feature returned
\* the hypothesis of the varying one only
C19_Witness ==
    /\ lastOp = "analyze_correlations"
    /\ min_correlation = <<0, 1>>
    /\ min_sample_size = 0
    /\ ret.kind = "return"
    /\ Len(ret.val) = 1
    /\ Len(lastCall.external_data) = 1
    /\ ~IsConstant(Column(lastCall.signals, 1))
    /\ IsConstant(Column(lastCall.signals, 2))
    /\ hypotheses # <<>>

\* C20: a learning step on a store that holds the batch completes and sets
\* epsilon to max(epsilon_end, epsilon * epsilon_decay), so that epsilon
\* stays within [epsilon_end, epsilon_start] and never increases.
C20_LearningStepDecaysEpsilon ==
    [][ (/\ lastOp' = "train_step"
         /\ lastArg' >= 1
         /\ Len(memory) >= lastArg')
        => /\ ret'.kind = "return"
           /\ epsilon' = decayed_epsilon(epsilon)
           /\ EpsilonEnd <= epsilon'
           /\ epsilon' <= epsilon ]_vars

Quiescent == \A s \in Sessions : ~Active(s)
Overlapped == \E s \in Sessions : sessions[s].overlapped

C22_OnlyInterleavingBreaksInvariant ==
    (Quiescent /\ ~Overlapped)
        => /\ Len(memory) = Min(pushed, capacity)
           /\ Len(priorities) = Len(memory)
           /\ position = pushed % capacity

\* both sessions are back from push and the buffer holds more entries than
\* its capacity
C22_Witness ==
    /\ Quiescent
    /\ Overlapped
    /\ Len(memory) > capacity
    /\ Len(priorities) = Len(memory)

\* C23: whatever outcomes were processed and whatever learning steps were
\* attempted, every stored priority is strictly positive, the one seeded by
\* an outcome of reward 0 included.
C23_StoredPrioritiesPositive ==
    /\ Len(priorities) = Len(memory)
    /\ AllPositive(priorities)

\* a learning step was attempted on a buffer that holds an outcome of
\* reward 0, whose priority is the offset alone
C23_Witness ==
    /\ lastOp = "train_step"
    /\ lastArg = 1
    /\ \E i \in 1..Len(memory) :
          /\ memory[i].reward = 0
          /\ priorities[i] = PowAlpha(PriorityOffset)
          /\ priorities[i] > 0

\* C24: update_priorities, called with indices that sampling can return
\* (all within the buffer) and a priority for each, stores priority ** alpha
\* at every such index (the last one given, when an index comes twice) and
\* leaves alone the priority at every other index, the stored transitions,
\* the write cursor and the length of the buffer.
Refreshed(pairs, i) == {k \in 1..Len(pairs) : pairs[k].idx = i}
LastOf(ks) == CHOOSE k \in ks : \A j \in ks : j <= k

C24_RefreshWritesOnlySampled ==
    [][ (/\ lastOp' = "update_priorities"
         /\ \A k \in 1..Len(lastCall.pairs) :
               lastCall.pairs[k].idx < Len(memory))
        => /\ ret' = ReturnedNone
           /\ Len(priorities') = Len(priorities)
           /\ \A i \in 0..(Len(priorities) - 1) :
                 priorities'[i + 1] =
                     IF Refreshed(lastCall.pairs, i) = {}
                     THEN priorities[i + 1]
                     ELSE PowAlpha(lastCall.pairs[
                              LastOf(Refreshed(lastCall.pairs, i))].priority)
           /\ UNCHANGED <<memory, position, pushed, capacity>> ]_vars

\* a full buffer after a refresh of two of its entries: one priority was
\* rewritten, another one, not in the batch, still has its pushed value
C24_Witness ==
    /\ lastOp = "update_priorities"
    /\ ret = ReturnedNone
    /\ Len(lastCall.pairs) = 2
    /\ Len(memory) = capacity
    /\ \E i, j \in 1..Len(priorities) :
          /\ Refreshed(lastCall.pairs, i - 1) # {}
          /\ priorities[i] > PowAlpha(DefaultPriority)
          /\ Refreshed(lastCall.pairs, j - 1) = {}
          /\ priorities[j] = PowAlpha(DefaultPriority)

\* C25: a learning step on a store that holds the batch computes, for each
\* sampled transition, the target reward + gamma * Q_target(next)[a*] *
\* (1 - done) with a* the online network's best action, trains on it and
\* returns the loss.
C25_LearningStepComputesTargets ==
    [][ (/\ lastOp' = "train_step"
         /\ lastArg' >= 1
         /\ Len(memory) >= lastArg'
         /\ AllPositive(priorities))
        => /\ ret'.kind = "return"
           /\ ret'.val.trained ]_vars

\* C26: find_matching_successes returns min(top_k, number of kept pairs)
\* pairs, each the (action, reward * similarity) of a different kept entry,
\* in order of non-increasing score, and no kept entry that was left out
\* has a score strictly greater than a returned one.
Injections(n, m) ==
    {f \in [1..n -> 1..m] : \A a, b \in 1..n : a # b => f[a] # f[b]}

C26_ReturnsTopKByScore ==
    lastOp = "find_matching_successes"
        => LET kept == Matches(global_successes, lastCall.current_signal)
               out == ret.val
           IN  /\ Len(out) = Min(lastCall.top_k, Len(kept))
               /\ \A i \in 1..(Len(out) - 1) :
                     ~ScoreLess(out[i][2], out[i + 1][2])
               /\ \E f \in Injections(Len(out), Len(kept)) :
                     /\ \A i \in 1..Len(out) :
                           out[i] = <<kept[f[i]].action_idx, kept[f[i]].score>>
                     /\ \A j \in 1..Len(kept) :
                           (\A i \in 1..Len(out) : f[i] # j)
                               => \A i \in 1..Len(out) :
                                     ~ScoreLess(out[i][2], kept[j].score)

\* two entries were kept, the later one with the greater score, and the
\* query for the best one returned that later entry
C26_Witness ==
    /\ lastOp = "find_matching_successes"
    /\ lastCall.top_k = 1
    /\ LET kept == Matches(global_successes, lastCall.current_signal)
       IN  /\ Len(kept) = 2
           /\ ScoreLess(kept[1].score, kept[2].score)
           /\ ret.val = <<(<<kept[2].action_idx, kept[2].score>>)>>

\* C27: a call of analyze_correlations that returns has its list in order
\* of non-increasing absolute correlation and leaves the log equal to the
\* log before followed by exactly that list, duplicates of earlier entries
\* included; a call that raises leaves the log as it was.  An external
\* series whose length differs from the number of samples changes nothing:
\* the outcome is that of the same call without the series, and no returned
\* hypothesis names it.
Mismatched(call, e) ==
    Len(call.external_data[e].values) # Len(call.signals)
WithoutMismatched(call) ==
    SelectSeq(call.external_data,
              LAMBDA s : Len(s.values) = Len(call.signals))

C27_LogIsConcatenationOfSortedResults ==
    [][ lastOp' = "analyze_correlations"
        => /\ ret'.kind = "return"
                 => /\ \A i \in 1..(Len(ret'.val) - 1) :
                          ~WeakerThan(ret'.val[i].correlation,
                                      ret'.val[i + 1].correlation)
                    /\ hypotheses' = hypotheses \o ret'.val
                    /\ \A e \in 1..Len(lastCall'.external_data) :
                          Mismatched(lastCall', e)
                              => \A i \in 1..Len(ret'.val) :
                                    ret'.val[i].independent_variable #
                                        lastCall'.external_data[e].name
           /\ ret'.kind = "raise" => hypotheses' = hypotheses
           /\ ret' = analyze_correlations(
                         hypotheses, min_correlation, lastCall'.signals,
                         WithoutMismatched(lastCall'),
                         lastCall'.feature_names).ret ]_vars

\* the second call found four correlations and returned them in another
\* order than it found them; the log holds the first call's hypotheses
\* followed by these four
C27_Witness ==
    /\ lastOp = "analyze_correlations"
    /\ analyses = 2
    /\ ret.kind = "return"
    /\ Len(ret.val) = 4
    /\ ret.val[2].id = 3
    /\ Len(hypotheses) > 4
    /\ SubSeq(hypotheses, Len(hypotheses) - 3, Len(hypotheses)) = ret.val

\* C28: sample leaves the stored transitions, the stored priorities, the
\* write cursor and the length as they were, whether it returns or raises;
\* when it returns, it returns one index per requested transition, every
\* index lies in [0, len), and the transition returned for an index is the
\* one stored at that index.
C28_SampleReadsOnly ==
    [][ lastOp' = "sample"
        => /\ UNCHANGED <<memory, priorities, position, pushed, capacity>>
           /\ ret'.kind = "return"
                 => /\ Len(ret'.val.indices) = lastArg'
                    /\ Len(ret'.val.samples) = lastArg'
                    /\ \A k \in 1..lastArg' :
                          /\ 0 <= ret'.val.indices[k]
                          /\ ret'.val.indices[k] < Len(memory)
                          /\ ret'.val.samples[k] =
                                 memory[ret'.val.indices[k] + 1] ]_vars

\* a batch of two drawn from a buffer of at least two transitions: the
\* second stored transition first, then the first one
C28_Witness ==
    /\ lastOp = "sample"
    /\ ret.kind = "return"
    /\ Len(memory) >= 2
    /\ ret.val.indices = <<1, 0>>
    /\ ret.val.samples = <<memory[2], memory[1]>>
    /\ memory[1] # memory[2]

\* C29: in a buffer of capacity C >= 1 that was pushed into k times, the
\* write cursor is k mod C and lies in [0, C); while the buffer is not full
\* it equals the number of stored entries modulo C, and once the buffer is
\* full it is the place of the entry pushed earliest among those stored.
C29_CursorIsPushesModCapacity ==
    capacity >= 1
        => /\ position = pushed % capacity
           /\ 0 <= position
           /\ position < capacity
           /\ Len(memory) < capacity => position = Len(memory) % capacity
           /\ Len(memory) = capacity => Oldest(memory) = position + 1

\* a full buffer of several entries whose cursor has wrapped and stands in
\* the middle, on the oldest entry
C29_Witness ==
    /\ capacity >= 2
    /\ pushed > capacity
    /\ Len(memory) = capacity
    /\ position >= 1
    /\ position = pushed % capacity
    /\ Oldest(memory) = position + 1

\* C30: a call of analyze_correlations with fewer feature names than the
\* signal has dimensions returns, and for every pair that passes
\* min_correlation and whose feature index i has no name the returned list
\* holds a hypothesis on that external variable with dependent variable
\* feature_<i>.
C30_UnnamedFeatureGetsFallbackName ==
    (/\ lastOp = "analyze_correlations"
     /\ lastCall.signals # <<>>
     /\ Len(lastCall.feature_names) < Len(lastCall.signals[1]))
    => /\ ret.kind = "return"
       /\ \A e \in 1..Len(lastCall.external_data) :
             \A f \in (Len(lastCall.feature_names) + 1)..Len(lastCall.signals[1]) :
                (/\ Len(lastCall.external_data[e].values) = Len(lastCall.signals)
                 /\ MeetsMinimum(corrcoef(Column(lastCall.signals, f),
                                          lastCall.external_data[e].values),
                                 min_correlation))
                => \E k \in 1..Len(ret.val) :
                      /\ ret.val[k].independent_variable =
                             lastCall.external_data[e].name
                      /\ ret.val[k].dependent_variable = FeatureFallback(f - 1)

====
